---------------------------- MODULE Spec2Model ----------------------------
(***************************************************************************)
(* Model of the process-transcripts edge function of MeetingsTranscriptPOC *)
(* (supabase/functions/process-transcripts/index.ts): the "fetch" request  *)
(* handler, the folder scan fetchSharePointTranscripts, the resolver       *)
(* tryFetchTranscriptFromDriveItem / tryFetchTranscriptFromStream, the     *)
(* upsert into the transcripts table, and the "summarize" request handler  *)
(* with summarizeWithAI and the insert into the summaries table.           *)
(*                                                                         *)
(* File names are TLA+ strings; the string functions of the code           *)
(* (endsWith, includes, startsWith, split, the three regex replaces) are   *)
(* computed character by character.  Every network call (await fetch) is   *)
(* answered by the environment: it succeeds, completes with a non-success  *)
(* status, or throws.                                                      *)
(***************************************************************************)
EXTENDS Naturals, Sequences, FiniteSets, TLC

(***************************************************************************)
(* Bounds of the model.                                                    *)
(***************************************************************************)
\* Largest number of items in the scanned folder's listing.
MaxListing == 2
\* Largest number of fetch requests handled in one behaviour of SpecRescan.
MaxRequests == 2
\* In a drive with stable responses, the latest network call of a scan that
\* the environment may make fail.
MaxFailAt == 6

(***************************************************************************)
(* Strings: the JavaScript string functions the code uses.                 *)
(***************************************************************************)
\* s.endsWith(suffix)
EndsWith(s, suffix) ==
    /\ Len(s) >= Len(suffix)
    /\ SubSeq(s, Len(s) - Len(suffix) + 1, Len(s)) = suffix

\* s.startsWith(prefix)
StartsWith(s, prefix) ==
    /\ Len(s) >= Len(prefix)
    /\ SubSeq(s, 1, Len(prefix)) = prefix

\* s.includes(part)
Includes(s, part) ==
    \E k \in 1..(Len(s) + 1) :
        /\ k + Len(part) - 1 <= Len(s)
        /\ SubSeq(s, k, k + Len(part) - 1) = part

UpperLetters == "ABCDEFGHIJKLMNOPQRSTUVWXYZ"
LowerLetters == "abcdefghijklmnopqrstuvwxyz"

\* The lower-case letter of every upper-case letter.
LowerOf ==
    [c \in {SubSeq(UpperLetters, k, k) : k \in 1..Len(UpperLetters)} |->
        LET k == CHOOSE k \in 1..Len(UpperLetters) : SubSeq(UpperLetters, k, k) = c
        IN  SubSeq(LowerLetters, k, k)]

\* One character, case folded the way a regex with the i flag compares it.
FoldChar(c) == IF c \in DOMAIN LowerOf THEN LowerOf[c] ELSE c

\* s ends with the literal suffix, compared case-insensitively (regex /...$/i).
EndsWithIgnoreCase(s, suffix) ==
    /\ Len(s) >= Len(suffix)
    /\ \A k \in 1..Len(suffix) :
          FoldChar(SubSeq(s, Len(s) - Len(suffix) + k, Len(s) - Len(suffix) + k))
              = FoldChar(SubSeq(suffix, k, k))

\* \d
IsDigit(c) == c \in {"0", "1", "2", "3", "4", "5", "6", "7", "8", "9"}

\* s without its last n characters.
DropLast(s, n) == SubSeq(s, 1, Len(s) - n)

TimestampDigits == 6
UtcSuffix == "UTC-Meeting Recording.mp4"
MeetingSuffix == "-Meeting Recording.mp4"
Mp4Suffix == ".mp4"

\* name.replace(/_\d{6}UTC-Meeting Recording\.mp4$/i, '')
StripTimestamped(s) ==
    LET n == 1 + TimestampDigits + Len(UtcSuffix)
        at == Len(s) - n + 1
    IN  IF /\ Len(s) >= n
           /\ SubSeq(s, at, at) = "_"
           /\ \A d \in 1..TimestampDigits : IsDigit(SubSeq(s, at + d, at + d))
           /\ EndsWithIgnoreCase(s, UtcSuffix)
        THEN DropLast(s, n)
        ELSE s

\* name.replace(/-Meeting Recording\.mp4$/i, '')
StripMeetingRecording(s) ==
    IF EndsWithIgnoreCase(s, MeetingSuffix) THEN DropLast(s, Len(MeetingSuffix)) ELSE s

\* name.replace(/\.mp4$/i, '')
StripMp4(s) ==
    IF EndsWithIgnoreCase(s, Mp4Suffix) THEN DropLast(s, Len(Mp4Suffix)) ELSE s

\* baseName as fetchSharePointTranscripts computes it (two replaces).
ScanBaseName(name) == StripMeetingRecording(StripTimestamped(name))

\* baseName as tryFetchTranscriptFromDriveItem computes it (three replaces).
ResolverBaseName(name) == StripMp4(StripMeetingRecording(StripTimestamped(name)))

\* baseName.split('-')[0]
FirstToken(s) ==
    IF \E k \in 1..Len(s) : SubSeq(s, k, k) = "-"
    THEN LET k == CHOOSE k \in 1..Len(s) :
                      /\ SubSeq(s, k, k) = "-"
                      /\ \A j \in 1..(k - 1) : SubSeq(s, j, j) # "-"
         IN  SubSeq(s, 1, k - 1)
    ELSE s

\* The match by its three stricter rules alone, without the first-token rule.
MatchStrict(baseName, fileName) ==
    \/ fileName = baseName \o ".vtt"
    \/ fileName = baseName \o "-transcript.vtt"
    \/ StartsWith(fileName, baseName) /\ EndsWith(fileName, ".vtt")

\* The match without the name patterns: every .vtt file is taken.
MatchAnyVtt(baseName, fileName) == EndsWith(fileName, ".vtt")

\* matchPatterns.some(m => m) of the parent-folder rescan.
MatchPatterns(baseName, fileName) ==
    \/ fileName = baseName \o ".vtt"
    \/ fileName = baseName \o "-transcript.vtt"
    \/ StartsWith(fileName, baseName) /\ EndsWith(fileName, ".vtt")
    \/ Includes(fileName, FirstToken(baseName)) /\ EndsWith(fileName, ".vtt")

\* transcript.name.replace(/\.[^/.]+$/, ""): the name without its last extension.
Title(name) ==
    IF \E k \in 1..(Len(name) - 1) :
           /\ SubSeq(name, k, k) = "."
           /\ \A j \in (k + 1)..Len(name) : SubSeq(name, j, j) \notin {".", "/"}
    THEN LET k == CHOOSE k \in 1..(Len(name) - 1) :
                      /\ SubSeq(name, k, k) = "."
                      /\ \A j \in (k + 1)..Len(name) : SubSeq(name, j, j) \notin {".", "/"}
         IN  SubSeq(name, 1, k - 1)
    ELSE name

(***************************************************************************)
(* Drive items, as Microsoft Graph returns them in a listing: the facet    *)
(* (file or folder), the name, webUrl and lastModifiedDateTime.  An item   *)
(* is identified by its webUrl, which also stands for its id and for the   *)
(* item its download URL points to.                                        *)
(***************************************************************************)
Null == "(null)"
FolderPath == "/Meetings"

FileAt(path, name) ==
    [kind |-> "file", name |-> name, webUrl |-> path \o "/" \o name,
     lastModified |-> "2024-01-15T10:00:00Z"]
FolderAt(path, name) ==
    [kind |-> "folder", name |-> name, webUrl |-> path \o "/" \o name,
     lastModified |-> "2024-01-15T10:00:00Z"]

RecA == FileAt(FolderPath, "Weekly Sync_240115UTC-Meeting Recording.mp4")
RecB == FileAt(FolderPath, "Weekly Sync-b-Meeting Recording.mp4")
VttA == FileAt(FolderPath, "Weekly Sync.vtt")
VttOther == FileAt(FolderPath, "Other.vtt")
NotesTxt == FileAt(FolderPath, "Notes.txt")
PlanDocx == FileAt(FolderPath, "Plan.docx")
WeeklyFolder == FolderAt(FolderPath, "Weekly Sync")
TranscriptsFolder == FolderAt(FolderPath, "Transcripts")

\* The items the scanned folder may hold, in the order the drive lists them.
FolderItems ==
    <<RecA, RecB, VttA, VttOther, NotesTxt, PlanDocx, WeeklyFolder, TranscriptsFolder>>

Range(seq) == {seq[k] : k \in 1..Len(seq)}

\* Every listing of at most MaxListing distinct items of the folder.
Listings ==
    {SelectSeq(FolderItems, LAMBDA it : it \in S) :
        S \in {T \in SUBSET Range(FolderItems) : Cardinality(T) <= MaxListing}}

\* Items outside the first listing that the resolver's lookups may return.
StreamVtt(rec) == FileAt(rec.webUrl, "transcript.vtt")
StreamThumb(rec) == FileAt(rec.webUrl, "thumbnail.jpg")
LateVtt == FileAt(FolderPath, "Weekly Sync-b.vtt")
LateFolder == FolderAt(FolderPath, "Transcript")
SubNote == FileAt(WeeklyFolder.webUrl, "agenda.txt")
SubVtt == FileAt(WeeklyFolder.webUrl, "intro.vtt")
TfOther == FileAt(TranscriptsFolder.webUrl, "Other.vtt")
TfMatch == FileAt(TranscriptsFolder.webUrl, "Weekly Sync-transcript.vtt")

(***************************************************************************)
(* The rest of the drive: what each lookup of the resolver answers with    *)
(* when it succeeds.  children: whether a recording has a .vtt child;      *)
(* late: files added to the folder after it was first listed; sub, tf:     *)
(* the children of the "Weekly Sync" and "Transcripts" folders; search:    *)
(* the result list of a search query.                                      *)
(***************************************************************************)
BareDrive ==
    [children |-> FALSE, late |-> <<>>, sub |-> <<>>, tf |-> <<>>, search |-> <<>>]
DeepDrive ==
    [children |-> FALSE, late |-> <<LateFolder>>, sub |-> <<SubNote, SubVtt>>,
     tf |-> <<TfOther, TfMatch>>, search |-> <<WeeklyFolder, TfMatch>>]
StreamDrive ==
    [children |-> TRUE, late |-> <<LateVtt>>, sub |-> <<>>, tf |-> <<TfOther>>,
     search |-> <<VttOther>>]
Drives == {BareDrive, DeepDrive, StreamDrive}

Outcomes == {"ok", "notOk", "throw"}
FailModes == {"notOk", "throw"}

VARIABLES
    env,                \* the drive and how its endpoints answer
    stored,             \* the rows of table transcripts
    reqNo,              \* number of the fetch request being handled
    pc,                 \* where the handler is
    callNo,             \* network calls issued so far by this request's scan
    allFiles,           \* filesData.value
    vttFiles,           \* the .vtt files of allFiles
    mp4Files,           \* the meeting recordings of allFiles
    idx,                \* index of the running for loop
    transcripts,        \* transcripts of fetchSharePointTranscripts
    processedVttNames,  \* the consumed set
    rs,                 \* locals of tryFetchTranscriptFromDriveItem
    storedTranscripts,  \* storedTranscripts of the handler
    errors,             \* errors of the handler
    response,           \* the Response returned, NoResponse before
    hist,               \* what happened in this request (history)
    arg,                \* a file name handed to the name functions on their own
    out,                \* what the name functions returned for arg
    azure_openai_config,  \* the rows of table azure_openai_config
    summaries,          \* the rows of table summaries
    sm                  \* locals of the summarize request

\* The state of action summarize.
sumVars == <<azure_openai_config, summaries, sm>>

vars == <<sumVars, arg, out, env, stored, reqNo, pc, callNo, allFiles, vttFiles, mp4Files, idx, transcripts,
          processedVttNames, rs, storedTranscripts, errors, response, hist>>

\* allFiles.filter(f => f.file && f.name.endsWith(".vtt"))
VttFiles(files) ==
    SelectSeq(files, LAMBDA f : f.kind = "file" /\ EndsWith(f.name, ".vtt"))

\* The recordings filter returning every recording twice.
Mp4FilesRepeated(files) ==
    LET once == SelectSeq(files, LAMBDA f : /\ f.kind = "file"
                                            /\ EndsWith(f.name, ".mp4")
                                            /\ Includes(f.name, "Meeting Recording"))
    IN  once \o once

\* allFiles.filter(f => f.file && f.name.endsWith(".mp4") && f.name.includes("Meeting Recording"))
Mp4Files(files) ==
    SelectSeq(files, LAMBDA f : /\ f.kind = "file"
                                /\ EndsWith(f.name, ".mp4")
                                /\ Includes(f.name, "Meeting Recording"))

\* The text files filter without its .docx half.
IsTxtFile(f) == f.kind = "file" /\ EndsWith(f.name, ".txt")

\* file.file && (file.name.endsWith(".txt") || file.name.endsWith(".docx"))
IsTextFile(f) ==
    f.kind = "file" /\ (EndsWith(f.name, ".txt") \/ EndsWith(f.name, ".docx"))

\* The text a completed download returns: the file's text, or the error page
\* of a response with a non-success status (contentResponse.text() either way).
Body(item, outcome) ==
    IF outcome = "ok" THEN "text of " \o item.webUrl ELSE "error page"

\* The url of an entry taken from the request's pre-authenticated download
\* link, which every listing issues anew.
DownloadUrl(item) ==
    item.webUrl \o (IF reqNo = 1 THEN "?tempauth=1" ELSE "?tempauth=n")

\* url: file.webUrl, the sharepoint_url of the stored row.
SourceUrl(item) == item.webUrl

\* A TranscriptFile without video fields.
Standalone(item, content) ==
    [name |-> item.name, content |-> content, url |-> SourceUrl(item),
     lastModified |-> item.lastModified, videoUrl |-> Null, videoFileName |-> Null]

\* A TranscriptFile carrying the recording it was found for.
WithVideo(item, content, rec) ==
    [name |-> item.name, content |-> content, url |-> SourceUrl(item),
     lastModified |-> item.lastModified, videoUrl |-> rec.webUrl,
     videoFileName |-> rec.name]

(***************************************************************************)
(* The environment's answer to the n-th network call an action issues.     *)
(* A flaky drive may answer every call in every way.  A stable drive       *)
(* answers every scan alike: the call numbered env.failAt of a scan fails  *)
(* with env.failMode, every other call succeeds.                           *)
(***************************************************************************)
Fetch(n) ==
    IF env.stable
    THEN {IF callNo + n = env.failAt THEN env.failMode ELSE "ok"}
    ELSE Outcomes

\* callNo after an action that issued n calls (counted on stable drives only).
Issued(n) == IF env.stable THEN callNo + n ELSE 0

\* Locals of one run of the resolver, and how the run has gone so far: the
\* strategies it started, the search queries it issued, how many of its calls
\* failed (counted up to 2) and what the first of them was, the download of
\* a located file or a lookup; state is
\* "idle" outside a run and "returned" right after one, result then holding
\* the transcript returned (<<>>: null).  path: the lookups of the run in the
\* order they were issued; hits: the .vtt files located whose content came
\* back; fileName: the name of the recording the run is for; folder: the
\* folder whose children the run listed last; listing: the children in which
\* the file returned was found.
NoRun == [state |-> "idle", parentItems |-> <<>>, tried |-> {}, issued |-> <<>>,
          failures |-> 0, first |-> <<>>, result |-> <<>>, fetching |-> <<>>,
          path |-> <<>>, hits |-> <<>>, fileName |-> "", folder |-> <<>>,
          listing |-> <<>>]
\* The handler's Response: its status and its JSON body, which holds either
\* error or success, count, total, transcripts and errors.
NoResponse ==
    [status |-> 0, body |-> "none", error |-> "", count |-> 0, total |-> 0,
     transcripts |-> <<>>, errors |-> <<>>]

\* fetched: the files whose content download was issued in this scan;
\* refetched: those whose download was issued more than once; completed:
\* those whose download came back with a response; unsuccessful: those whose
\* download completed with a non-success status; written: the
\* positions of the transcripts whose upsert wrote its row.
NoHist == [fatal |-> Null, fetchFailed |-> {}, absent |-> {}, visited |-> {},
           upserts |-> 0, firstCount |-> 0, persistFailed |-> FALSE,
           fetched |-> {}, refetched |-> {}, completed |-> {}, unsuccessful |-> {},
           written |-> {}]

\* The history after fetch(downloadUrl) of the item was issued and had outcome o.
Downloaded(h, item, o) ==
    [h EXCEPT !.fetched = @ \cup {item.webUrl},
              !.refetched = IF item.webUrl \in h.fetched THEN @ \cup {item.webUrl} ELSE @,
              !.completed = IF o = "throw" THEN @ ELSE @ \cup {item.webUrl},
              !.unsuccessful = IF o = "notOk" THEN @ \cup {item.webUrl} ELSE @]

\* A download in which every response but a success counts as failed.
CaughtUnlessOk(o) == o # "ok"

\* const contentResponse = await fetch(downloadUrl); const content = await
\* contentResponse.text() inside try: the catch is entered only when the call
\* throws, the status of the response is not looked at.
Caught(o) == o = "throw"

Envs ==
    [folder : Listings, stable : {FALSE}, failAt : {0}, failMode : {"throw"},
     remote : {BareDrive}]
StableEnvs ==
    [folder : Listings, stable : {TRUE}, failAt : 0..MaxFailAt, failMode : FailModes,
     remote : Drives]

\* No summarize request: its transcriptId, the rows it selected, the summary
\* the AI call gave, and the calls it issued so far, <<call, outcome>> each.
NoSummarize ==
    [transcriptId |-> 0, transcript |-> <<>>, azureConfig |-> <<>>, summary |-> <<>>,
     calls |-> <<>>]

\* No name handed over, nothing returned.
NoArg == [x |-> "", kind |-> "none", name |-> "", file |-> ""]
NoOut == [scan |-> <<>>, resolver |-> <<>>, match |-> <<>>]

InitWith(E) ==
    /\ env \in E
    /\ azure_openai_config = {}
    /\ summaries = {}
    /\ sm = NoSummarize
    /\ arg = NoArg
    /\ out = NoOut
    /\ stored = {}
    /\ reqNo = 1
    /\ pc = "token"
    /\ callNo = 0
    /\ allFiles = <<>>
    /\ vttFiles = <<>>
    /\ mp4Files = <<>>
    /\ idx = 0
    /\ transcripts = <<>>
    /\ processedVttNames = {}
    /\ rs = NoRun
    /\ storedTranscripts = <<>>
    /\ errors = <<>>
    /\ response = NoResponse
    /\ hist = NoHist

Init == InitWith(Envs)
InitRescan == InitWith(StableEnvs)

(***************************************************************************)
(* Control flow of fetchSharePointTranscripts and of the persist loop: the *)
(* loop that runs next, skipping the loops that have nothing to iterate.   *)
(***************************************************************************)
\* lens: the lengths of vttFiles, mp4Files, allFiles and of the transcripts.
RECURSIVE Loc(_, _, _)
Loc(p, k, lens) ==
    CASE p = "vtt" ->
            IF k <= lens[1] THEN [pc |-> "vtt", idx |-> k] ELSE Loc("mp4", 1, lens)
      [] p = "mp4" ->
            IF k <= lens[2] THEN [pc |-> "mp4", idx |-> k] ELSE Loc("text", 1, lens)
      [] p = "text" ->
            IF k <= lens[3] THEN [pc |-> "text", idx |-> k] ELSE Loc("persist", 1, lens)
      [] OTHER ->
            IF k <= lens[4] THEN [pc |-> "persist", idx |-> k]
            ELSE [pc |-> "respond", idx |-> 0]

\* The handler goes to iteration k of loop p (trs: the transcripts by then).
Goto(p, k, trs) ==
    LET loc == Loc(p, k, <<Len(vttFiles), Len(mp4Files), Len(allFiles), Len(trs)>>)
    IN  pc' = loc.pc /\ idx' = loc.idx

\* The rs of the action after a resolver run: the run's record is dropped.
Settled == IF rs.state = "returned" THEN NoRun ELSE rs

(***************************************************************************)
(* Deno.serve, catch (error): the 400 response.                            *)
(***************************************************************************)
ErrorResponse(message) ==
    [status |-> 400, body |-> "error", error |-> message, count |-> 0, total |-> 0,
     transcripts |-> <<>>, errors |-> <<>>]

\* The calls without their response.ok check.
ResponseAccepted(o) == FALSE

\* if (!response.ok) throw new Error(...) of the token, site and files calls.
ResponseRejected(o) == o = "notOk"

\* Whether a top-level call with outcome o ends the scan with a thrown error.
Throws(o) == o = "throw" \/ ResponseRejected(o)

\* One of the three calls every scan starts with; on failure the error
\* propagates out of fetchSharePointTranscripts into the handler's catch.
TopLevelCall(at, next, message) ==
    /\ \E o \in Fetch(1) :
        /\ hist' = [hist EXCEPT !.fatal = IF o # "ok" /\ @ = Null THEN at ELSE @]
        /\ callNo' = Issued(1)
        /\ IF Throws(o)
           THEN /\ pc' = "done"
                /\ response' = ErrorResponse(IF o = "throw" THEN "fetch failed" ELSE message)
                /\ UNCHANGED <<allFiles, vttFiles, mp4Files, idx>>
           ELSE /\ response' = response
                /\ IF next = "vtt"
                   THEN LET loc == Loc("vtt", 1, <<Len(VttFiles(env.folder)),
                                                   Len(Mp4Files(env.folder)),
                                                   Len(env.folder), 0>>)
                        IN  /\ allFiles' = env.folder
                            /\ vttFiles' = VttFiles(env.folder)
                            /\ mp4Files' = Mp4Files(env.folder)
                            /\ pc' = loc.pc
                            /\ idx' = loc.idx
                   ELSE /\ pc' = next
                        /\ UNCHANGED <<allFiles, vttFiles, mp4Files, idx>>
    /\ UNCHANGED <<sumVars, arg, out, env, stored, reqNo, transcripts, processedVttNames, rs,
                   storedTranscripts, errors>>

\* getSharePointAccessToken
GetToken ==
    /\ pc = "token"
    /\ TopLevelCall("token", "site", "Failed to get SharePoint access token")

\* fetch(siteApiUrl)
GetSite ==
    /\ pc = "site"
    /\ TopLevelCall("site", "files", "Failed to get SharePoint site information")

\* fetch(filesApiUrl); allFiles = filesData.value
ListFiles ==
    /\ pc = "files"
    /\ TopLevelCall("files", "vtt", "Failed to fetch files from SharePoint")

\* The consumed set left as it was.
NotConsumed(processed, name) == processed

\* processedVttNames.add(vttFile.name)
Consume(processed, name) == processed \cup {name}

(***************************************************************************)
(* for (const vttFile of vttFiles)                                         *)
(***************************************************************************)
VttStep ==
    /\ pc = "vtt"
    /\ LET vttFile == vttFiles[idx] IN
       \E o \in Fetch(1) :
        /\ transcripts' = IF Caught(o) THEN transcripts
                          ELSE Append(transcripts, Standalone(vttFile, Body(vttFile, o)))
        /\ processedVttNames' = IF Caught(o) THEN processedVttNames
                                ELSE Consume(processedVttNames, vttFile.name)
        /\ hist' = [Downloaded(hist, vttFile, o) EXCEPT
                        !.visited = @ \cup {vttFile.name},
                        !.fetchFailed = IF o = "throw" THEN @ \cup {vttFile.name} ELSE @]
        /\ callNo' = Issued(1)
        /\ Goto("vtt", idx + 1, transcripts')
    /\ UNCHANGED <<sumVars, arg, out, env, stored, reqNo, allFiles, vttFiles, mp4Files, rs, storedTranscripts, errors, response>>

(***************************************************************************)
(* for (const mp4File of mp4Files): the same-folder lookup.  The recording *)
(* is skipped when its VTT is in the consumed set, gets the VTT of the     *)
(* listing named baseName.vtt when there is one, and is handed to the      *)
(* resolver otherwise.                                                     *)
(***************************************************************************)
\* vttFiles.find(f => f.name === possibleVttName): its index, 0 when none.
FindVtt(vtts, possibleVttName) ==
    LET hits == {k \in 1..Len(vtts) : vtts[k].name = possibleVttName}
    IN  IF hits = {} THEN 0 ELSE CHOOSE k \in hits : \A j \in hits : k <= j

\* The look at the consumed set inverted: a recording is skipped when its VTT
\* is not in the set.
NotYetProcessed(processed, possibleVttName) == possibleVttName \notin processed

\* The recordings loop without its look at the consumed set.
NeverProcessed(processed, possibleVttName) == FALSE

\* processedVttNames.has(possibleVttName): the recording is skipped.
AlreadyProcessed(processed, possibleVttName) == possibleVttName \in processed

Mp4Step ==
    /\ pc = "mp4"
    /\ LET mp4File == mp4Files[idx]
           baseName == ScanBaseName(mp4File.name)
           possibleVttName == baseName \o ".vtt"
           found == FindVtt(vttFiles, possibleVttName)
       IN
       IF AlreadyProcessed(processedVttNames, possibleVttName)
       THEN /\ hist' = [hist EXCEPT !.visited = @ \cup {mp4File.name}]
            /\ rs' = Settled
            /\ Goto("mp4", idx + 1, transcripts)
            /\ UNCHANGED <<transcripts, processedVttNames, callNo>>
       ELSE IF found # 0 /\ vttFiles[found].name \notin processedVttNames
       THEN LET vttFile == vttFiles[found] IN
            \E o \in Fetch(1) :
             /\ transcripts' = IF Caught(o) THEN transcripts
                               ELSE Append(transcripts,
                                           WithVideo(vttFile, Body(vttFile, o), mp4File))
             /\ processedVttNames' = IF Caught(o) THEN processedVttNames
                                     ELSE Consume(processedVttNames, vttFile.name)
             /\ hist' = [Downloaded(hist, vttFile, o) EXCEPT
                             !.visited = @ \cup {mp4File.name},
                             !.fetchFailed = IF o = "throw" THEN @ \cup {vttFile.name} ELSE @]
             /\ callNo' = Issued(1)
             /\ rs' = Settled
             /\ Goto("mp4", idx + 1, transcripts')
       ELSE /\ pc' = "stream"
            /\ rs' = [NoRun EXCEPT !.state = "running", !.fileName = mp4File.name]
            /\ hist' = [hist EXCEPT !.visited = @ \cup {mp4File.name}]
            /\ UNCHANGED <<idx, transcripts, processedVttNames, callNo>>
    /\ UNCHANGED <<sumVars, arg, out, env, stored, reqNo, allFiles, vttFiles, mp4Files, storedTranscripts, errors, response>>

(***************************************************************************)
(* The resolver: tryFetchTranscriptFromDriveItem, entered for the          *)
(* recording mp4Files[idx].  One action per lookup; each action issues the *)
(* lookup and, when the lookup yields a .vtt file, the download of it.     *)
(***************************************************************************)
\* The lookup answers the drive can give (see Drives).
Answers(field) == IF env.stable THEN {env.remote[field]} ELSE {d[field] : d \in Drives}

\* Index of the first element of seq that is one of the matching items, 0
\* when there is none.
FirstIndex(seq, matching) ==
    LET hits == {k \in 1..Len(seq) : seq[k] \in matching}
    IN  IF hits = {} THEN 0 ELSE CHOOSE k \in hits : \A j \in hits : k <= j

Min(a, b) == IF a <= b THEN a ELSE b

\* The run record after a call of the given kind had outcome o.
Note(r, kind, o) ==
    IF o = "ok" THEN r
    ELSE [r EXCEPT !.failures = Min(2, @ + 1),
                   !.first = IF @ # <<>> THEN @
                             ELSE IF kind = "download" THEN <<"download">>
                             ELSE <<"lookup">>]

Recording == mp4Files[idx]

\* The run record after the download of a located item had outcome o.
Got(r, item, o) ==
    Note([r EXCEPT !.fetching = <<item, o>>,
                   !.hits = IF o = "throw" THEN @ ELSE Append(@, item)], "download", o)

\* The run record when the children of that folder are asked for.
Used(r, folder) == [r EXCEPT !.folder = <<folder>>]

\* The run record when a file of those children is taken.
Listed(r, kids) == [r EXCEPT !.listing = kids]

\* The run record when the lookup of that name is issued.
Step(r, lookup) == [r EXCEPT !.path = Append(@, lookup)]

\* The history with the download the action issued, if it issued one.
Merged(h, r) ==
    IF r.fetching = <<>> THEN h ELSE Downloaded(h, r.fetching[1], r.fetching[2])

\* The recordings loop left (break) at the first recording without transcript.
BreakAfterMiss(k) == Len(mp4Files) + 1

\* The for loop of the recordings after a recording that got no transcript
\* (console.log "No transcript available"): the next recording.
AfterMiss(k) == k + 1

\* The recordings loop adding the name of the resolver's transcript to the
\* consumed set.
ConsumeResolved(processed, result) ==
    processed \cup {result[k].name : k \in 1..Len(result)}

\* if (transcriptFromDriveItem) { transcripts.push(transcriptFromDriveItem) }:
\* the consumed set after the push, which has no processedVttNames.add.
AfterResolver(processed, result) == processed

\* The resolver returns result (<<>>: null, no transcript) to the recordings
\* loop, which pushes a transcript and goes on; n calls were issued by the action.
ReturnFrom(r, result, n) ==
    /\ transcripts' = transcripts \o result
    /\ rs' = [r EXCEPT !.state = "returned", !.result = result, !.fetching = <<>>]
    /\ hist' = [Merged(hist, r) EXCEPT
                    !.absent = IF result = <<>> THEN @ \cup {Recording.name} ELSE @]
    /\ callNo' = Issued(n)
    /\ Goto("mp4", IF result = <<>> THEN AfterMiss(idx) ELSE idx + 1, transcripts')
    /\ processedVttNames' = AfterResolver(processedVttNames, result)

\* The resolver goes on with the lookup at next.
Continue(r, next, n) ==
    /\ pc' = next
    /\ rs' = [r EXCEPT !.fetching = <<>>]
    /\ hist' = Merged(hist, r)
    /\ callNo' = Issued(n)
    /\ UNCHANGED <<idx, transcripts, processedVttNames>>

\* The download of a located item: a throw ends the run in the resolver's
\* catch, a completed download returns the transcript.
DownloadFound(r, item, n) ==
    \E d \in Fetch(n) :
        IF Caught(d)
        THEN ReturnFrom(Got(r, item, d), <<>>, n)
        ELSE ReturnFrom(Got(r, item, d),
                        <<WithVideo(item, Body(item, d), Recording)>>, n)

IsVttFile(f) == f.kind = "file" /\ EndsWith(f.name, ".vtt")

\* tryFetchTranscriptFromStream: the children of the recording item, then the
\* beta item and the thumbnails; its own catch turns every throw into null.
Stream ==
    /\ pc = "stream"
    /\ LET r0 == Step([rs EXCEPT !.tried = @ \cup {"stream"}], "stream") IN
       \E o \in Fetch(1), has \in Answers("children") :
        LET kids == IF has THEN <<StreamThumb(Recording), StreamVtt(Recording)>> ELSE <<>>
            k == FirstIndex(kids, {f \in Range(kids) : IsVttFile(f)})
            r1 == Note(r0, "children", o)
        IN  IF o = "ok" /\ k # 0
            THEN \E d \in Fetch(2) :
                    IF Caught(d)
                    THEN Continue(Got(r1, kids[k], d), "item", 2)
                    ELSE ReturnFrom(Got(r1, kids[k], d),
                                    <<WithVideo(kids[k], Body(kids[k], d), Recording)>>, 2)
            ELSE IF o = "throw"
            THEN Continue(r1, "item", 1)
            ELSE \E b \in Fetch(2) :
                    IF b = "throw"
                    THEN Continue(Note(r1, "beta", b), "item", 2)
                    ELSE \E t \in Fetch(3) :
                            Continue(Note(Note(r1, "beta", b), "thumbnails", t), "item", 3)
    /\ UNCHANGED <<sumVars, arg, out, env, stored, reqNo, allFiles, vttFiles, mp4Files, storedTranscripts, errors, response>>

\* fetch(itemUrl + '?$expand=permissions'): the recording's parent folder id.
ItemLookup ==
    /\ pc = "item"
    /\ LET r0 == Step([rs EXCEPT !.tried = @ \cup {"parent"}], "item") IN
       \E o \in Fetch(1) :
        IF o = "ok"
        THEN Continue(r0, "parent", 1)
        ELSE ReturnFrom(Note(r0, "item", o), <<>>, 1)
    /\ UNCHANGED <<sumVars, arg, out, env, stored, reqNo, allFiles, vttFiles, mp4Files, storedTranscripts, errors, response>>

\* The find taking the first folder whatever its name.
FirstFolder(items, baseName) ==
    FirstIndex(items, {it \in Range(items) : it.kind = "folder"})

\* allItems.find(item => item.folder && (item.name === baseName || item.name.includes(baseName)))
FolderNameMatch(items, baseName) ==
    FirstIndex(items, {it \in Range(items) :
                          /\ it.kind = "folder"
                          /\ (it.name = baseName \/ Includes(it.name, baseName))})

\* allItems.find(item => item.folder && (item.name === 'Transcript' || item.name === 'Transcripts'))
TranscriptFolder(items) ==
    FirstIndex(items, {it \in Range(items) :
                          /\ it.kind = "folder"
                          /\ it.name \in {"Transcript", "Transcripts"}})

\* The cascade leaving the parent folder without looking for Transcript(s).
SkipTranscriptFolder(items) == "versions"

\* Where the resolver goes once the matching-subfolder strategy is over.
AfterSubfolder(items) == IF TranscriptFolder(items) # 0 THEN "tfolder" ELSE "versions"

\* Where the resolver goes after a parent rescan without a match.
AfterRescan(items, baseName) ==
    IF FolderNameMatch(items, baseName) # 0 THEN "subfolder" ELSE AfterSubfolder(items)

\* The strategies whose folder lookup (find) has run when the resolver is at next.
Reached(next) ==
    IF next = "subfolder" THEN {"subfolder"} ELSE {"subfolder", "tfolder"}

\* The rescan giving the strictest rule priority: the item named exactly
\* baseName + ".vtt" when the listing holds one, the first match otherwise.
StrictestMatch(allItems, baseName) ==
    LET exact == FirstIndex(allItems, {f \in Range(allItems) :
                                          IsVttFile(f) /\ f.name = baseName \o ".vtt"})
    IN  IF exact # 0 THEN exact
        ELSE FirstIndex(allItems, {f \in Range(allItems) :
                                      IsVttFile(f) /\ MatchPatterns(baseName, f.name)})

\* for (const file of allItems) of the parent rescan: the index of the first
\* item that is a .vtt file and passes matchPatterns, 0 when there is none.
RescanMatch(allItems, baseName) ==
    FirstIndex(allItems, {f \in Range(allItems) :
                             IsVttFile(f) /\ MatchPatterns(baseName, f.name)})

\* fetch(parentUrl) and the rescan of the parent's children with matchPatterns.
ParentRescan ==
    /\ pc = "parent"
    /\ LET baseName == ResolverBaseName(Recording.name) IN
       \E o \in Fetch(1), late \in Answers("late") :
        LET allItems == env.folder \o late
            k == RescanMatch(allItems, baseName)
            r1 == Note(Step(rs, "parent"), "parent", o)
            next == AfterRescan(allItems, baseName)
        IN  IF o = "throw" THEN ReturnFrom(r1, <<>>, 1)
            ELSE IF o = "notOk" THEN Continue(r1, "versions", 1)
            ELSE IF k # 0 THEN DownloadFound(Listed(r1, allItems), allItems[k], 2)
            ELSE Continue([r1 EXCEPT !.parentItems = allItems,
                                     !.tried = @ \cup Reached(next)], next, 1)
    /\ UNCHANGED <<sumVars, arg, out, env, stored, reqNo, allFiles, vttFiles, mp4Files, storedTranscripts, errors, response>>

\* The folder named like the recording: the first .vtt file of its children.
Subfolder ==
    /\ pc = "subfolder"
    /\ LET baseName == ResolverBaseName(Recording.name)
           folderNameMatch == rs.parentItems[FolderNameMatch(rs.parentItems, baseName)]
       IN
       \E o \in Fetch(1), kids \in Answers("sub") :
        LET k == FirstIndex(kids, {f \in Range(kids) : IsVttFile(f)})
            r1 == Note(Step(Used(rs, folderNameMatch), "subfolder"), "subfolder", o)
            next == AfterSubfolder(rs.parentItems)
        IN  IF o = "throw" THEN ReturnFrom(r1, <<>>, 1)
            ELSE IF o = "ok" /\ k # 0 THEN DownloadFound(Listed(r1, kids), kids[k], 2)
            ELSE Continue([r1 EXCEPT !.tried = @ \cup {"tfolder"}], next, 1)
    /\ UNCHANGED <<sumVars, arg, out, env, stored, reqNo, allFiles, vttFiles, mp4Files, storedTranscripts, errors, response>>

\* The file test of the Transcript(s) folder without its token half.
AnyVtt(baseName, f) == IsVttFile(f)

\* file.file && file.name.endsWith('.vtt') && file.name.includes(baseName.split('-')[0])
TranscriptMatch(baseName, f) ==
    IsVttFile(f) /\ Includes(f.name, FirstToken(baseName))

\* The folder Transcript(s): the first .vtt file of its children whose name
\* includes the first token of baseName.
TranscriptFolderLookup ==
    /\ pc = "tfolder"
    /\ LET baseName == ResolverBaseName(Recording.name)
           transcriptFolder == rs.parentItems[TranscriptFolder(rs.parentItems)]
       IN
       \E o \in Fetch(1), kids \in Answers("tf") :
        LET k == FirstIndex(kids, {f \in Range(kids) : TranscriptMatch(baseName, f)})
            r1 == Note(Step(Used(rs, transcriptFolder), "tfolder"), "tfolder", o)
        IN  IF o = "throw" THEN ReturnFrom(r1, <<>>, 1)
            ELSE IF o = "ok" /\ k # 0 THEN DownloadFound(Listed(r1, kids), kids[k], 2)
            ELSE Continue(r1, "versions", 1)
    /\ UNCHANGED <<sumVars, arg, out, env, stored, reqNo, allFiles, vttFiles, mp4Files, storedTranscripts, errors, response>>

\* fetch(versionsUrl) and fetch(relatedUrl): their answers are only logged,
\* but a throw of either ends the run in the resolver's catch.
Diagnostics ==
    /\ pc = "versions"
    /\ LET r0 == Step(rs, "versions") IN
       \E v \in Fetch(1) :
        IF v = "throw"
        THEN ReturnFrom(Note(r0, "versions", v), <<>>, 1)
        ELSE \E a \in Fetch(2) :
                IF a = "throw"
                THEN ReturnFrom(Note(Note(r0, "versions", v), "analytics", a), <<>>, 2)
                ELSE Continue(Note(Note(r0, "versions", v), "analytics", a), "search", 2)
    /\ UNCHANGED <<sumVars, arg, out, env, stored, reqNo, allFiles, vttFiles, mp4Files, storedTranscripts, errors, response>>

\* searchQueries
SearchQueries(baseName) ==
    <<baseName \o ".vtt", baseName \o "-transcript.vtt",
      FirstToken(baseName) \o ".vtt", FirstToken(baseName)>>

\* for (const query of searchQueries): one query, the first .vtt file of its results.
Search ==
    /\ pc = "search"
    /\ LET queries == SearchQueries(ResolverBaseName(Recording.name))
           q == Len(rs.issued) + 1
           r0 == Step([rs EXCEPT !.issued = Append(@, queries[q]),
                                 !.tried = @ \cup {"search"}], "search")
       IN
       \E o \in Fetch(1), results \in Answers("search") :
        LET k == FirstIndex(results, {f \in Range(results) : IsVttFile(f)})
            r1 == Note(r0, "search", o)
        IN  IF o = "throw" THEN ReturnFrom(r1, <<>>, 1)
            ELSE IF o = "ok" /\ k # 0 THEN DownloadFound(Listed(r1, results), results[k], 2)
            ELSE IF q = Len(queries) THEN ReturnFrom(r1, <<>>, 1)
            ELSE Continue(r1, "search", 1)
    /\ UNCHANGED <<sumVars, arg, out, env, stored, reqNo, allFiles, vttFiles, mp4Files, storedTranscripts, errors, response>>

(***************************************************************************)
(* for (const file of allFiles): the .txt and .docx files.                 *)
(***************************************************************************)
TextStep ==
    /\ pc = "text"
    /\ LET file == allFiles[idx] IN
       IF IsTextFile(file)
       THEN \E o \in Fetch(1) :
             /\ transcripts' = IF Caught(o) THEN transcripts
                               ELSE Append(transcripts, Standalone(file, Body(file, o)))
             /\ hist' = [Downloaded(hist, file, o) EXCEPT
                             !.visited = @ \cup {file.name},
                             !.fetchFailed = IF o = "throw" THEN @ \cup {file.name} ELSE @]
             /\ callNo' = Issued(1)
             /\ Goto("text", idx + 1, transcripts')
       ELSE /\ Goto("text", idx + 1, transcripts)
            /\ UNCHANGED <<transcripts, hist, callNo>>
    /\ rs' = Settled
    /\ UNCHANGED <<sumVars, arg, out, env, stored, reqNo, allFiles, vttFiles, mp4Files, processedVttNames, storedTranscripts,
                   errors, response>>

(***************************************************************************)
(* The handler's persist loop: one upsert per transcript, on conflict of   *)
(* sharepoint_url, which table transcripts declares UNIQUE.                *)
(***************************************************************************)
\* new Date(lastModified) as the client serialises it: the ISO form with
\* milliseconds.
MeetingDate(lastModified) ==
    IF EndsWith(lastModified, "Z") /\ ~Includes(lastModified, ".")
    THEN DropLast(lastModified, 1) \o ".000Z"
    ELSE lastModified

\* The row the handler hands to upsert.
Row(t) ==
    [title |-> Title(t.name), sharepoint_url |-> t.url, content |-> t.content,
     file_name |-> t.name, meeting_date |-> MeetingDate(t.lastModified),
     video_url |-> t.videoUrl, video_file_name |-> t.videoFileName]

\* The row as stored under the given id.
StoredRow(row, id) == [id |-> id] @@ row

\* The upsert with ignoreDuplicates: true: a row whose sharepoint_url is
\* stored is left as it is.
UpsertIgnoringDuplicates(table, row) ==
    IF \E r \in table : r.sharepoint_url = row.sharepoint_url
    THEN table
    ELSE table \cup {StoredRow(row, Cardinality(table) + 1)}

\* A plain insert: the row is added under a fresh id whatever the table holds.
Insert(table, row) == table \cup {StoredRow(row, Cardinality(table) + 1)}

\* upsert(row, {onConflict: 'sharepoint_url', ignoreDuplicates: false}): the
\* stored row with the same sharepoint_url takes the new fields and keeps its
\* id; without one, the row is inserted under a fresh id.
Upsert(table, row) ==
    IF \E r \in table : r.sharepoint_url = row.sharepoint_url
    THEN {IF r.sharepoint_url = row.sharepoint_url THEN StoredRow(row, r.id) ELSE r :
             r \in table}
    ELSE table \cup {StoredRow(row, Cardinality(table) + 1)}

\* .select().maybeSingle(): the row the upsert wrote.
Returned(table, row) == CHOOSE r \in table : r.sharepoint_url = row.sharepoint_url

\* How the upsert can end: the row is written and returned; the row is
\* written but the select after it returns none (data and error both null);
\* the database answers with an error; the call throws.  The database of a
\* stable drive always writes and returns the row.
DbOutcomes == IF env.stable THEN {"ok"} ELSE {"ok", "empty", "error", "throw"}

\* The upsert wrote its row.
Wrote(o) == o \in {"ok", "empty"}

\* The persist loop left (break) at the first transcript that was not stored.
BreakAfterError(k) == Len(transcripts) + 1

\* errors.push({file, error}) and continue, or the end of the catch block:
\* the loop goes on with the next transcript.
AfterError(k) == k + 1

PersistStep ==
    /\ pc = "persist"
    /\ LET transcript == transcripts[idx] IN
       \E o \in DbOutcomes :
        /\ stored' = IF Wrote(o) THEN Upsert(stored, Row(transcript)) ELSE stored
        /\ storedTranscripts' =
              IF o = "ok" THEN Append(storedTranscripts, Returned(stored', Row(transcript)))
              ELSE storedTranscripts
        /\ errors' = IF Wrote(o) THEN errors
                     ELSE Append(errors, [file |-> transcript.name,
                                          error |-> IF o = "error" THEN "database error"
                                                    ELSE "Error: fetch failed"])
        /\ hist' = [hist EXCEPT !.upserts = IF Wrote(o) THEN @ + 1 ELSE @,
                                !.persistFailed = @ \/ ~Wrote(o),
                                !.written = IF Wrote(o) THEN @ \cup {idx} ELSE @]
        /\ Goto("persist", IF Wrote(o) THEN idx + 1 ELSE AfterError(idx), transcripts)
    /\ rs' = Settled
    /\ UNCHANGED <<sumVars, arg, out, env, reqNo, callNo, allFiles, vttFiles, mp4Files, transcripts, processedVttNames, response>>

\* total counting the stored rows instead of the transcripts of the scan.
StoredTotal == Len(storedTranscripts)

\* total of the response: transcripts.length.
Total == Len(transcripts)

\* The 200 response of action fetch.  errors is left out of the JSON when
\* the list is empty (errors.length > 0 ? errors : undefined): a response
\* without errors has the empty list here.
Respond ==
    /\ pc = "respond"
    /\ response' = [status |-> 200, body |-> "success", error |-> "",
                    count |-> Len(storedTranscripts), total |-> Total,
                    transcripts |-> storedTranscripts, errors |-> errors]
    /\ pc' = "done"
    /\ rs' = Settled
    /\ UNCHANGED <<sumVars, arg, out, env, stored, reqNo, callNo, allFiles, vttFiles, mp4Files, idx, transcripts,
                   processedVttNames, storedTranscripts, errors, hist>>

\* The next fetch request arrives: the handler and the scan start with fresh
\* locals; only the table is kept.  (hist keeps the row count the first
\* request left.)
NewRequest ==
    /\ pc = "done"
    /\ reqNo < MaxRequests
    /\ reqNo' = reqNo + 1
    /\ pc' = "token"
    /\ callNo' = 0
    /\ allFiles' = <<>>
    /\ vttFiles' = <<>>
    /\ mp4Files' = <<>>
    /\ idx' = 0
    /\ transcripts' = <<>>
    /\ processedVttNames' = {}
    /\ rs' = NoRun
    /\ storedTranscripts' = <<>>
    /\ errors' = <<>>
    /\ response' = NoResponse
    /\ hist' = [NoHist EXCEPT !.firstCount = IF reqNo = 1 THEN Cardinality(stored)
                                             ELSE hist.firstCount]
    /\ UNCHANGED <<sumVars, arg, out, env, stored>>

Scan ==
    \/ GetToken \/ GetSite \/ ListFiles
    \/ VttStep \/ Mp4Step
    \/ Stream \/ ItemLookup \/ ParentRescan \/ Subfolder \/ TranscriptFolderLookup
    \/ Diagnostics \/ Search
    \/ TextStep

Next == Scan \/ PersistStep \/ Respond

NextRescan == Next \/ NewRequest

(***************************************************************************)
(* The name functions on their own: baseName of the scan, baseName of the  *)
(* resolver and matchPatterns, applied to recording names built from a     *)
(* stem X the way Teams builds them, and to file names beside them.        *)
(***************************************************************************)
Stems ==
    {"Weekly Sync", "Weekly Sync-b", "Q1-Review", "a.mp4", "a.MP4",
     "a-Meeting Recording.mp4", "b_123456UTC", "Standup Meeting Recording",
     "-late", ""}
Stamps == {"240115", "000000"}

\* X_######UTC-Meeting Recording.mp4
Stamped(x, digits) == x \o "_" \o digits \o "UTC-Meeting Recording.mp4"
\* X-Meeting Recording.mp4
Plain(x) == x \o "-Meeting Recording.mp4"

\* The file names tried against the stem.
FilesBeside(x) ==
    {x \o ".vtt", x \o "-transcript.vtt", x \o " (1).vtt", x \o ".txt",
     FirstToken(x) \o " notes.vtt", "unrelated.vtt", "Other.vtt", "Sync.vtt"}

\* The names and files handed over for the stem x.
ArgsOf(x) ==
    {[x |-> x, kind |-> "stamped", name |-> Stamped(x, d), file |-> x \o ".vtt"] :
        d \in Stamps}
    \cup {[x |-> x, kind |-> "plain", name |-> Plain(x), file |-> f] : f \in FilesBeside(x)}
    \cup {[x |-> x, kind |-> "other", name |-> x \o ".mp4", file |-> x \o ".vtt"]}

Args == UNION {ArgsOf(x) : x \in Stems}

scanVars == <<env, stored, reqNo, pc, callNo, allFiles, vttFiles, mp4Files, idx,
              transcripts, processedVttNames, rs, storedTranscripts, errors,
              response, hist>>

InitNames ==
    /\ arg \in Args
    /\ azure_openai_config = {}
    /\ summaries = {}
    /\ sm = NoSummarize
    /\ out = NoOut
    /\ env = [folder |-> <<>>, stable |-> TRUE, failAt |-> 0, failMode |-> "throw",
              remote |-> BareDrive]
    /\ stored = {}
    /\ reqNo = 1
    /\ pc = "names"
    /\ callNo = 0
    /\ allFiles = <<>>
    /\ vttFiles = <<>>
    /\ mp4Files = <<>>
    /\ idx = 0
    /\ transcripts = <<>>
    /\ processedVttNames = {}
    /\ rs = NoRun
    /\ storedTranscripts = <<>>
    /\ errors = <<>>
    /\ response = NoResponse
    /\ hist = NoHist

\* const baseName = mp4File.name.replace(...).replace(...) of the scan.
StripScan ==
    /\ pc = "names"
    /\ out.scan = <<>>
    /\ out' = [out EXCEPT !.scan = <<ScanBaseName(arg.name)>>]
    /\ UNCHANGED <<arg, scanVars, sumVars>>

\* const baseName = fileName.replace(...).replace(...).replace(...) of the resolver.
StripResolver ==
    /\ pc = "names"
    /\ out.resolver = <<>>
    /\ out' = [out EXCEPT !.resolver = <<ResolverBaseName(arg.name)>>]
    /\ UNCHANGED <<arg, scanVars, sumVars>>

\* matchPatterns.some(m => m) for the stem as baseName and the file beside it.
Match ==
    /\ pc = "names"
    /\ out.match = <<>>
    /\ out' = [out EXCEPT !.match = <<MatchPatterns(arg.x, arg.file)>>]
    /\ UNCHANGED <<arg, scanVars, sumVars>>

NextNames == StripScan \/ StripResolver \/ Match

(***************************************************************************)
(* Action summarize of the handler: the transcript of the given id and the *)
(* Azure OpenAI configuration are selected, the api key is looked at,      *)
(* summarizeWithAI is called and its result inserted into table summaries. *)
(* Every throw ends in the handler's catch, the 400 response.              *)
(***************************************************************************)
\* Largest number of rows of table transcripts when the request arrives.
MaxStoredRows == 2

\* The files whose transcripts the table may hold, by id.
Summarizable == <<VttA, VttOther, NotesTxt, PlanDocx>>

\* The row of table transcripts with id k.
TranscriptRow(k) ==
    StoredRow(Row(Standalone(Summarizable[k], Body(Summarizable[k], "ok"))), k)

TranscriptTables == {{TranscriptRow(k) : k \in 1..n} : n \in 0..MaxStoredRows}

\* A row of table azure_openai_config; api_key is text DEFAULT ''.
AzureConfigRow(key) ==
    [endpoint |-> "https://meetings.openai.azure.com", deployment_name |-> "gpt-4o-mini",
     api_version |-> "2025-01-01-preview", api_key |-> key]

\* The table holds no row, or one row with a key, an empty key or none.
AzureConfigTables == {{}} \cup {{AzureConfigRow(key)} : key \in {"secret", "", Null}}

\* .select("*").maybeSingle(): the query answers, answers with an error, or throws.
SelectOutcomes == {"ok", "error", "throw"}

\* What the chat completion holds when the AI call succeeds: the JSON asked
\* for, a JSON object without the three fields, or text that is no JSON.
AIBodies == {"full", "empty object", "not json"}

InitSummarize ==
    /\ stored \in TranscriptTables
    /\ azure_openai_config \in AzureConfigTables
    /\ summaries = {}
    /\ sm \in {[NoSummarize EXCEPT !.transcriptId = id] : id \in 1..(MaxStoredRows + 1)}
    /\ pc = "selectTranscript"
    /\ arg = NoArg
    /\ out = NoOut
    /\ env = [folder |-> <<>>, stable |-> FALSE, failAt |-> 0, failMode |-> "throw",
              remote |-> BareDrive]
    /\ reqNo = 1
    /\ callNo = 0
    /\ allFiles = <<>>
    /\ vttFiles = <<>>
    /\ mp4Files = <<>>
    /\ idx = 0
    /\ transcripts = <<>>
    /\ processedVttNames = {}
    /\ rs = NoRun
    /\ storedTranscripts = <<>>
    /\ errors = <<>>
    /\ response = NoResponse
    /\ hist = NoHist

\* What action summarize leaves alone.
fetchVars == <<arg, out, env, stored, azure_openai_config, reqNo, callNo, allFiles,
               vttFiles, mp4Files, idx, transcripts, processedVttNames, rs,
               storedTranscripts, errors, hist>>

\* The locals after the call of that name had outcome o.
Called(s, call, o) == [s EXCEPT !.calls = Append(@, <<call, o>>)]

\* throw new Error(message), caught by the handler: the 400 response.
Fail(s, message) ==
    /\ sm' = s
    /\ pc' = "done"
    /\ response' = ErrorResponse(message)
    /\ UNCHANGED summaries

\* supabase.from("transcripts").select("*").eq("id", transcriptId).maybeSingle()
SelectTranscript ==
    /\ pc = "selectTranscript"
    /\ \E o \in SelectOutcomes :
        LET found == {r \in stored : r.id = sm.transcriptId}
            s1 == Called(sm, "transcripts", o)
        IN  IF o = "throw" THEN Fail(s1, "fetch failed")
            ELSE IF o = "error" \/ found = {} THEN Fail(s1, "Transcript not found")
            ELSE /\ sm' = [s1 EXCEPT !.transcript = <<CHOOSE r \in found : TRUE>>]
                 /\ pc' = "selectConfig"
                 /\ UNCHANGED <<response, summaries>>
    /\ UNCHANGED fetchVars

\* supabase.from("azure_openai_config").select("*").maybeSingle()
SelectConfig ==
    /\ pc = "selectConfig"
    /\ \E o \in SelectOutcomes :
        LET s1 == Called(sm, "azure_openai_config", o)
        IN  IF o = "throw" THEN Fail(s1, "fetch failed")
            ELSE IF o = "error" \/ azure_openai_config = {}
            THEN Fail(s1, "Azure OpenAI configuration not found")
            ELSE /\ sm' = [s1 EXCEPT !.azureConfig =
                                         <<CHOOSE c \in azure_openai_config : TRUE>>]
                 /\ pc' = "checkKey"
                 /\ UNCHANGED <<response, summaries>>
    /\ UNCHANGED fetchVars

\* The key check left out: every configuration row passes.
KeyNeverMissing(azureConfig) == FALSE

\* !azureConfig.api_key: the key is null or the empty string.
KeyMissing(azureConfig) == azureConfig.api_key \in {"", Null}

\* if (!azureConfig.api_key) throw new Error("Azure OpenAI API key not configured ...")
CheckKey ==
    /\ pc = "checkKey"
    /\ IF KeyMissing(sm.azureConfig[1])
       THEN Fail(sm, "Azure OpenAI API key not configured - please add it in the Configuration tab")
       ELSE /\ pc' = "summarizeWithAI"
            /\ UNCHANGED <<sm, response, summaries>>
    /\ UNCHANGED fetchVars

\* The value summarizeWithAI returns for a chat completion that parsed:
\* result.summary || "", result.keyPoints || [], result.actionItems || [].
Parsed(body, transcript) ==
    IF body = "full"
    THEN [summary |-> "summary of " \o transcript.file_name,
          keyPoints |-> <<"key point">>, actionItems |-> <<"action item">>]
    ELSE [summary |-> "", keyPoints |-> <<>>, actionItems |-> <<>>]

\* summarizeWithAI: the POST to the deployment; a non-success status and a
\* completion that is no JSON both throw.
SummarizeWithAI ==
    /\ pc = "summarizeWithAI"
    /\ \E o \in Outcomes, body \in AIBodies :
        LET s1 == Called(sm, "ai", o)
        IN  IF o = "throw" THEN Fail(s1, "fetch failed")
            ELSE IF o = "notOk"
            THEN Fail(s1, "Failed to generate summary with Azure OpenAI")
            ELSE IF body = "not json" THEN Fail(s1, "Unexpected token in JSON")
            ELSE /\ sm' = [s1 EXCEPT !.summary = <<Parsed(body, sm.transcript[1])>>]
                 /\ pc' = "insertSummary"
                 /\ UNCHANGED <<response, summaries>>
    /\ UNCHANGED fetchVars

\* The row handed to insert.
SummaryRow(transcriptId, summary, azureConfig) ==
    [transcript_id |-> transcriptId, summary |-> summary.summary,
     key_points |-> summary.keyPoints, action_items |-> summary.actionItems,
     ai_model |-> "azure-" \o azureConfig.deployment_name]

\* supabase.from("summaries").insert({...}).select().maybeSingle() and the
\* 200 response with the row.
InsertSummary ==
    /\ pc = "insertSummary"
    /\ \E o \in SelectOutcomes :
        LET s1 == Called(sm, "summaries", o)
            row == SummaryRow(sm.transcriptId, sm.summary[1], sm.azureConfig[1])
        IN  IF o = "throw" THEN Fail(s1, "fetch failed")
            ELSE IF o = "error" THEN Fail(s1, "Error storing summary: database error")
            ELSE /\ summaries' = summaries \cup {row}
                 /\ sm' = s1
                 /\ pc' = "done"
                 /\ response' = [status |-> 200, body |-> "success", error |-> "",
                                 summary |-> row]
    /\ UNCHANGED fetchVars

NextSummarize ==
    SelectTranscript \/ SelectConfig \/ CheckKey \/ SummarizeWithAI \/ InsertSummary

\* One fetch request against a drive that may answer every call in every way.
Spec == Init /\ [][Next]_vars

\* Several fetch requests against a drive that answers every scan alike.
SpecRescan == InitRescan /\ [][NextRescan]_vars

\* The name functions applied to one recording name and one file name.
SpecNames == InitNames /\ [][NextNames]_vars

\* One summarize request.
SpecSummarize == InitSummarize /\ [][NextSummarize]_vars


(***************************************************************************)
(* Properties of one scan and of its persist loop.                         *)
(***************************************************************************)
\* The scan of this request has returned its transcript list to the handler.
ScanReturned == pc \in {"persist", "respond"} \/ (pc = "done" /\ response.status = 200)

\* The positions of the entries of the list made from the file of that url.
EntriesOf(url) == {k \in 1..Len(transcripts) : transcripts[k].url = url}

\* The positions of the entries of the list that carry the recording as video.
EntriesFor(rec) == {k \in 1..Len(transcripts) : transcripts[k].videoFileName = rec.name}

\* Every download of the scan so far completed with a success status.
DownloadsSucceeded ==
    /\ hist.fetchFailed = {}
    /\ \A k \in 1..Len(transcripts) : transcripts[k].content # "error page"

\* C1: in one scan no VTT file appears in more than one entry of the returned
\* transcript list, whatever the listing and the outcomes of the Graph calls.
C1_NoVttInTwoEntries ==
    \A k \in 1..Len(transcripts) :
        EndsWith(transcripts[k].name, ".vtt") =>
            Cardinality(EntriesOf(transcripts[k].url)) = 1

\* C2: for a listing holding the recording X_######UTC-Meeting Recording.mp4
\* and X.vtt, all downloads succeeding, the scan returns exactly one transcript
\* for X.vtt, and it carries the recording as its video association.
C2_PairedVttCarriesRecording ==
    (/\ ScanReturned
     /\ RecA \in Range(allFiles)
     /\ VttA \in Range(allFiles)
     /\ DownloadsSucceeded)
    => /\ Cardinality(EntriesOf(VttA.webUrl)) = 1
       /\ \A k \in EntriesOf(VttA.webUrl) :
            /\ transcripts[k].videoFileName = RecA.name
            /\ transcripts[k].videoUrl = RecA.webUrl

\* C3: a file whose content download threw is absent from the returned
\* records and appears exactly once, by file name, in the errors list of the
\* response.
C3_FailedDownloadReported ==
    (pc = "done" /\ response.status = 200) =>
        \A f \in hist.fetchFailed :
            /\ \A k \in 1..Len(response.transcripts) :
                 response.transcripts[k].file_name # f
            /\ Cardinality({k \in 1..Len(response.errors) :
                               response.errors[k].file = f}) = 1

\* The names of the recordings the resolver returned null for.
WithoutTranscript == hist.absent

\* C4: the total of the response counts the transcripts the scan returned and
\* nothing else: a recording left without a transcript adds nothing to it.
C4_TotalIsTranscriptCount ==
    (pc = "done" /\ response.status = 200) => response.total = Len(transcripts)

\* C4 as claimed: the total of the response also counts every recording for
\* which no transcript was found.
C4_TotalCountsBareRecordings ==
    (pc = "done" /\ response.status = 200) =>
        response.total = Len(transcripts) + Cardinality(WithoutTranscript)

\* A response whose scan left a recording without transcript and stored less
\* than it found.
C4_Witness ==
    /\ pc = "done"
    /\ response.status = 200
    /\ WithoutTranscript # {}
    /\ response.total = 1
    /\ response.count = 0

\* C5: a recording for which the resolver found nothing has no entry in the
\* transcript list and none in the errors list, and the scan goes on: every
\* recording and every .txt/.docx file of the listing is visited.
C5_AbsentIsNotAnError ==
    ScanReturned =>
        /\ \A k \in 1..Len(transcripts) : transcripts[k].videoFileName \notin WithoutTranscript
        /\ \A k \in 1..Len(errors) : errors[k].file \notin WithoutTranscript
        /\ \A k \in 1..Len(mp4Files) : mp4Files[k].name \in hist.visited
        /\ \A k \in 1..Len(allFiles) :
             IsTextFile(allFiles[k]) => allFiles[k].name \in hist.visited

\* The first recording got nothing, the second one its transcript.
C5_Witness ==
    /\ pc = "done"
    /\ response.status = 200
    /\ RecA.name \in WithoutTranscript
    /\ EntriesFor(RecA) = {}
    /\ EntriesFor(RecB) = {1}

\* C6: a second scan of an unchanged drive, persisted through the upsert,
\* leaves as many stored rows as the first scan did.
C6_RescanKeepsRowCount ==
    (reqNo >= 2 /\ pc = "done") => Cardinality(stored) = hist.firstCount

\* The second request has written again the two rows the first one stored.
C6_Witness ==
    /\ reqNo = 2
    /\ pc = "done"
    /\ hist.upserts = 2
    /\ hist.firstCount = 2
    /\ Cardinality(stored) = 2

\* The stored row of that sharepoint_url, without its id.
FieldsOf(table, url) ==
    LET r == CHOOSE r \in table : r.sharepoint_url = url
    IN  [f \in DOMAIN r \ {"id"} |-> r[f]]

\* C7: no two stored rows have the same sharepoint_url, and an upsert of a row
\* whose sharepoint_url is stored overwrites the fields of that row and adds none.
C7_SourceUrlUnique ==
    /\ [](\A r1, r2 \in stored : r1.sharepoint_url = r2.sharepoint_url => r1 = r2)
    /\ [][(pc = "persist" /\ hist'.upserts = hist.upserts + 1) =>
            LET row == Row(transcripts[idx]) IN
            /\ \E r \in stored' : r.sharepoint_url = row.sharepoint_url
            /\ FieldsOf(stored', row.sharepoint_url) = row
            /\ (\E r \in stored : r.sharepoint_url = row.sharepoint_url) =>
                   Cardinality(stored') = Cardinality(stored)]_vars

\* The row of Weekly Sync.vtt, stored standalone, was overwritten by the entry
\* the resolver made of the same file for a recording.
C7_Witness ==
    /\ hist.upserts = 2
    /\ Cardinality(stored) = 1
    /\ \E r \in stored : /\ r.sharepoint_url = VttA.webUrl
                         /\ r.video_file_name = RecB.name

\* C8: every recording is the video of at most one entry of the transcript list.
C8_OneEntryPerRecording ==
    \A k \in 1..Len(mp4Files) : Cardinality(EntriesFor(mp4Files[k])) <= 1

\* Two recordings, each the video of its own entry.
C8_Witness ==
    /\ ScanReturned
    /\ Cardinality(EntriesFor(RecA)) = 1
    /\ Cardinality(EntriesFor(RecB)) = 1

\* C9: a resolver run in which a single Graph call failed treats the failure
\* as no match: a failed download gives no transcript, and a run that ends
\* without transcript has gone through the cascade up to the search.
C9_FailureContinuesCascade ==
    (rs.state = "returned" /\ rs.failures = 1) =>
        /\ rs.first[1] = "download" => rs.result = <<>>
        /\ rs.result = <<>> => "search" \in rs.tried

\* C10: a failure of the token exchange, the site lookup or the folder listing
\* ends the request with status 400 and an error message, before any file is
\* processed and with nothing persisted.
C10_FatalGives400 ==
    hist.fatal # Null =>
        /\ pc = "done"
        /\ response.status = 400
        /\ response.body = "error"
        /\ response.error # ""
        /\ response.transcripts = <<>>
        /\ hist.visited = {}
        /\ hist.upserts = 0
        /\ transcripts = <<>>

\* The folder listing answered with a non-success status.
C10_Witness ==
    /\ hist.fatal = "files"
    /\ response.status = 400
    /\ response.error = "Failed to fetch files from SharePoint"

\* C11: within one scan the content of a file is downloaded at most once, also
\* after its first download failed and also when the file was already emitted:
\* no download is issued a second time.
C11_DownloadedAtMostOnce == hist.refetched = {}

\* The recording name arg.name does not match the timestamped pattern.
NotStamped == StripTimestamped(arg.name) = arg.name

\* C12: baseName of X_######UTC-Meeting Recording.mp4 is exactly X, for the
\* scan and for the resolver, whatever X ends in.
C12_StampedNameGivesStem ==
    arg.kind = "stamped" =>
        /\ out.scan # <<>> => out.scan[1] = arg.x
        /\ out.resolver # <<>> => out.resolver[1] = arg.x

\* C13: baseName of X-Meeting Recording.mp4, a name that does not match the
\* timestamped pattern, is exactly X.
C13_PlainNameGivesStem ==
    (arg.kind = "plain" /\ NotStamped /\ out.resolver # <<>>) =>
        out.resolver[1] = arg.x

\* C14: a base name b matches b.vtt, and matches a file name ending in .vtt
\* only if that name contains the first hyphen-separated token of b.
C14_MatchNeedsFirstToken ==
    out.match # <<>> =>
        /\ arg.file = arg.x \o ".vtt" => out.match[1]
        /\ (out.match[1] /\ EndsWith(arg.file, ".vtt")) =>
               Includes(arg.file, FirstToken(arg.x))

\* An unrelated .vtt name was rejected for a stem with a hyphen, and the
\* stem's own .vtt is accepted.
C14_Witness ==
    /\ arg.x = "Q1-Review"
    /\ arg.file = "unrelated.vtt"
    /\ out.match = <<FALSE>>
    /\ MatchPatterns(arg.x, "Q1 notes.vtt")

\* The positions of the .txt and .docx files of the listing whose download
\* did not throw.
TextFilesFetched ==
    {k \in 1..Len(allFiles) :
        /\ allFiles[k].kind = "file"
        /\ EndsWith(allFiles[k].name, ".txt") \/ EndsWith(allFiles[k].name, ".docx")
        /\ allFiles[k].name \notin hist.fetchFailed}

\* C15: every .txt or .docx file of the listing whose download does not throw
\* yields exactly one transcript, without video association, whatever the
\* consumed set holds; a listing of one such file yields exactly one transcript.
C15_TextFileYieldsOneTranscript ==
    ScanReturned =>
        /\ \A k \in TextFilesFetched :
             /\ Cardinality(EntriesOf(allFiles[k].webUrl)) = 1
             /\ \A e \in EntriesOf(allFiles[k].webUrl) :
                  /\ transcripts[e].name = allFiles[k].name
                  /\ transcripts[e].videoUrl = Null
                  /\ transcripts[e].videoFileName = Null
        /\ (Len(allFiles) = 1 /\ TextFilesFetched = {1}) => Len(transcripts) = 1

\* A .docx file emitted after a VTT was consumed.
C15_Witness ==
    /\ ScanReturned
    /\ allFiles = <<VttOther, PlanDocx>>
    /\ processedVttNames = {VttOther.name}
    /\ EntriesOf(PlanDocx.webUrl) = {2}
    /\ transcripts[2].videoFileName = Null

\* The place of a lookup in the cascade.
Rank(lookup) ==
    CASE lookup = "stream" -> 1
      [] lookup = "item" -> 2
      [] lookup = "parent" -> 3
      [] lookup = "subfolder" -> 4
      [] lookup = "tfolder" -> 5
      [] lookup = "versions" -> 6
      [] OTHER -> 7

\* The lookups of the running resolver call, as a set.
Attempted == Range(rs.path)

\* The parent listing the run got holds a folder named like the recording.
HasNamedFolder ==
    \E k \in 1..Len(rs.parentItems) :
        /\ rs.parentItems[k].kind = "folder"
        /\ Includes(rs.parentItems[k].name, ResolverBaseName(rs.fileName))

\* The parent listing the run got holds a folder Transcript or Transcripts.
HasTranscriptFolder ==
    \E k \in 1..Len(rs.parentItems) :
        /\ rs.parentItems[k].kind = "folder"
        /\ rs.parentItems[k].name \in {"Transcript", "Transcripts"}

\* C16: the resolver attempts its strategies in the order stream children,
\* parent rescan, matching subfolder, Transcript(s) subfolder, search; a
\* strategy is attempted only after the earlier ones were and found nothing;
\* the transcript returned is that of the first strategy that located a VTT
\* and got its content, and the run ends with that success.
C16_CascadeOrder ==
    rs.state \in {"running", "returned"} =>
        /\ \A i, j \in 1..Len(rs.path) :
             i < j => \/ Rank(rs.path[i]) < Rank(rs.path[j])
                      \/ rs.path[i] = "search" /\ rs.path[j] = "search"
        /\ rs.path # <<>> => rs.path[1] = "stream"
        /\ Attempted \cap {"subfolder", "tfolder", "search"} # {} => "parent" \in Attempted
        /\ ("tfolder" \in Attempted /\ HasNamedFolder) => "subfolder" \in Attempted
        /\ ("search" \in Attempted /\ HasTranscriptFolder) => "tfolder" \in Attempted
        /\ Len(rs.hits) <= 1
        /\ rs.hits # <<>> =>
             /\ rs.state = "returned"
             /\ rs.result # <<>>
             /\ rs.result[1].url = rs.hits[1].webUrl
        /\ rs.result # <<>> => rs.hits # <<>>

\* The Transcript(s) folder gave the transcript after the stream children
\* and the parent rescan had found nothing and no folder had the recording's name.
C16_Witness ==
    /\ rs.state = "returned"
    /\ rs.path = <<"stream", "item", "parent", "tfolder">>
    /\ rs.result # <<>>
    /\ rs.result[1].url = TfMatch.webUrl

\* The .vtt files of the listing named exactly baseName + ".vtt" for that
\* recording name.
VttNamedFor(fileName) ==
    {k \in 1..Len(vttFiles) : vttFiles[k].name = ScanBaseName(fileName) \o ".vtt"}

\* C17: the resolver is invoked for a recording exactly when the listing holds
\* no VTT named baseName + ".vtt"; a recording that has such a VTT causes at
\* most one call, a download of that VTT.
C17_ResolverOnlyWithoutVtt ==
    /\ [](rs.state = "running" => VttNamedFor(rs.fileName) = {})
    /\ [][pc = "mp4" =>
            /\ pc' = "stream" <=> VttNamedFor(mp4Files[idx].name) = {}
            /\ VttNamedFor(mp4Files[idx].name) # {} =>
                 /\ rs'.state = "idle"
                 /\ hist'.absent = hist.absent
                 /\ hist'.fetched \subseteq
                       hist.fetched \cup {vttFiles[k].webUrl : k \in VttNamedFor(mp4Files[idx].name)}
                 /\ callNo' <= callNo + 1]_vars

\* The recording got the VTT of its name by the one download of the
\* recordings loop, without a resolver run.
C17_Witness ==
    /\ pc \in {"text", "persist", "respond"}
    /\ VttNamedFor(RecA.name) # {}
    /\ EntriesFor(RecA) = {1}
    /\ transcripts[1].url = VttA.webUrl
    /\ RecA.name \notin hist.absent

\* Where the handler is while the resolver runs.
ResolverPcs == {"stream", "item", "parent", "subfolder", "tfolder", "versions", "search"}

\* The scan is past its VTT pass.
PastVttPass == pc \in {"mp4", "text"} \cup ResolverPcs \/ ScanReturned

NamesOf(files) == {files[k].name : k \in 1..Len(files)}

\* The names of the .txt and .docx files of the listing.
TextNames ==
    {allFiles[k].name : k \in {j \in 1..Len(allFiles) :
        /\ allFiles[j].kind = "file"
        /\ EndsWith(allFiles[j].name, ".txt") \/ EndsWith(allFiles[j].name, ".docx")}}

\* C18: every .vtt file of the listing whose download does not throw is
\* emitted by the first pass without video association and is in the consumed
\* set before the first recording is examined; the VTT pass is over before the
\* recordings pass starts, and the recordings pass before the text pass.
C18_VttPassFirst ==
    /\ PastVttPass =>
         \A k \in 1..Len(vttFiles) :
            vttFiles[k].name \notin hist.fetchFailed =>
                /\ vttFiles[k].name \in processedVttNames
                /\ \E e \in 1..Len(vttFiles) :
                     /\ e <= Len(transcripts)
                     /\ transcripts[e].url = vttFiles[k].webUrl
                     /\ transcripts[e].videoUrl = Null
                     /\ transcripts[e].videoFileName = Null
    /\ pc = "vtt" => hist.visited \cap (NamesOf(mp4Files) \cup TextNames) = {}
    /\ pc \in {"mp4"} \cup ResolverPcs =>
         /\ NamesOf(vttFiles) \subseteq hist.visited
         /\ hist.visited \cap TextNames = {}
    /\ pc = "text" => NamesOf(vttFiles) \cup NamesOf(mp4Files) \subseteq hist.visited

\* The VTT listed after the recording is emitted and consumed when the first
\* recording comes up.
C18_Witness ==
    /\ pc = "mp4"
    /\ idx = 1
    /\ allFiles = <<RecA, VttA>>
    /\ processedVttNames = {VttA.name}
    /\ Len(transcripts) = 1
    /\ transcripts[1].videoFileName = Null

\* The last lookup of the resolver run.
LastLookup == IF rs.path = <<>> THEN "none" ELSE rs.path[Len(rs.path)]

\* The file is the first of the listing that passes the test, given as the
\* set of the files passing it.
FirstPassing(file, listing, passing) ==
    \E k \in 1..Len(listing) :
        /\ listing[k] = file
        /\ file \in passing
        /\ \A j \in 1..(k - 1) : listing[j] \notin passing

\* The run's folder is the first named like the recording in the parent listing.
FirstNamedFolder ==
    \E k \in 1..Len(rs.parentItems) :
        /\ rs.parentItems[k] = rs.folder[1]
        /\ rs.folder[1].kind = "folder"
        /\ Includes(rs.folder[1].name, ResolverBaseName(rs.fileName))
        /\ \A j \in 1..(k - 1) :
             ~(/\ rs.parentItems[j].kind = "folder"
               /\ Includes(rs.parentItems[j].name, ResolverBaseName(rs.fileName)))

\* C19: the matching-subfolder strategy lists the first folder of the parent
\* listing whose name equals or contains baseName and returns the first .vtt
\* file of its children, whatever that file is called; when the folder has no
\* .vtt file the resolver goes on to the Transcript(s) folder.
C19_SubfolderFirstVtt ==
    /\ (rs.state \in {"running", "returned"} /\ "subfolder" \in Attempted) =>
          FirstNamedFolder \/ "tfolder" \in Attempted
    /\ (rs.state = "returned" /\ LastLookup = "subfolder" /\ rs.result # <<>>) =>
          /\ FirstNamedFolder
          /\ rs.result[1].name = rs.hits[1].name
          /\ FirstPassing(rs.hits[1], rs.listing,
                          {f \in Range(rs.listing) :
                              f.kind = "file" /\ EndsWith(f.name, ".vtt")})
    /\ \A i \in 1..(Len(rs.path) - 1) :
          rs.path[i] = "subfolder" =>
              rs.path[i + 1] = IF HasTranscriptFolder THEN "tfolder" ELSE "versions"

\* The folder Weekly Sync gave intro.vtt, its first .vtt child, for the recording.
C19_Witness ==
    /\ rs.state = "returned"
    /\ LastLookup = "subfolder"
    /\ rs.folder = <<WeeklyFolder>>
    /\ rs.listing = <<SubNote, SubVtt>>
    /\ rs.result # <<>>
    /\ rs.result[1].name = "intro.vtt"

\* C20: the Transcript(s) strategy lists only a folder of the parent listing
\* named exactly Transcript or Transcripts and returns the first of its
\* children that is a .vtt file whose name contains the first hyphen token of
\* baseName; a .vtt file without the token is never returned by it.
C20_TranscriptFolderNeedsToken ==
    /\ (rs.state \in {"running", "returned"} /\ LastLookup = "tfolder") =>
          /\ rs.folder[1] \in Range(rs.parentItems)
          /\ rs.folder[1].kind = "folder"
          /\ rs.folder[1].name \in {"Transcript", "Transcripts"}
    /\ (rs.state = "returned" /\ LastLookup = "tfolder" /\ rs.result # <<>>) =>
          /\ rs.result[1].name = rs.hits[1].name
          /\ Includes(rs.result[1].name, FirstToken(ResolverBaseName(rs.fileName)))
          /\ FirstPassing(rs.hits[1], rs.listing,
                          {f \in Range(rs.listing) :
                              /\ f.kind = "file"
                              /\ EndsWith(f.name, ".vtt")
                              /\ Includes(f.name, FirstToken(ResolverBaseName(rs.fileName)))})

\* The folder Transcript gave Weekly Sync-transcript.vtt, passing over
\* Other.vtt listed before it.
C20_Witness ==
    /\ rs.state = "returned"
    /\ LastLookup = "tfolder"
    /\ rs.folder = <<LateFolder>>
    /\ rs.listing = <<TfOther, TfMatch>>
    /\ rs.result # <<>>
    /\ rs.result[1].url = TfMatch.webUrl

\* The queries of the search fallback for the recording of the run.
QueriesOfRun == SearchQueries(ResolverBaseName(rs.fileName))

\* C21: the search fallback issues baseName.vtt, baseName-transcript.vtt,
\* firstToken.vtt, firstToken in that order; it returns the first .vtt file,
\* in result order, of the earliest query that has one and issues no query
\* after it; a query that fails or has no .vtt result is followed by the next
\* query, so a search that ends without transcript has issued all four.
C21_SearchOrder ==
    rs.state \in {"running", "returned"} =>
        /\ Len(rs.issued) <= Len(QueriesOfRun)
        /\ \A q \in 1..Len(rs.issued) : rs.issued[q] = QueriesOfRun[q]
        /\ (LastLookup = "search" /\ rs.hits # <<>>) =>
              /\ rs.state = "returned"
              /\ rs.result # <<>>
              /\ rs.result[1].name = rs.hits[1].name
              /\ FirstPassing(rs.hits[1], rs.listing,
                              {f \in Range(rs.listing) :
                                  f.kind = "file" /\ EndsWith(f.name, ".vtt")})
        /\ (rs.state = "returned" /\ LastLookup = "search" /\ rs.result = <<>>) =>
              Len(rs.issued) = Len(QueriesOfRun)

\* The name the same-folder lookup asks for, for the recording of that name.
PossibleVttName(fileName) == ScanBaseName(fileName) \o ".vtt"

\* The recording has a VTT of its name in the listing and that VTT's download
\* in the first pass did not throw.
PairedVttEmitted(fileName) ==
    /\ VttNamedFor(fileName) # {}
    /\ PossibleVttName(fileName) \notin hist.fetchFailed

\* C22: the recordings pass attaches the listing's VTT named baseName + ".vtt"
\* to the recording only when the first-pass download of that VTT threw; when
\* it succeeded the recording is skipped: no download, no resolver call, and
\* the transcript emitted for the VTT keeps no video association.
C22_AttachOnlyAfterThrow ==
    /\ [](\A k \in 1..Len(transcripts), m \in 1..Len(mp4Files) :
            (/\ transcripts[k].videoFileName = mp4Files[m].name
             /\ transcripts[k].name = PossibleVttName(mp4Files[m].name)
             /\ VttNamedFor(mp4Files[m].name) # {})
            => transcripts[k].name \in hist.fetchFailed)
    /\ [][(pc = "mp4" /\ PairedVttEmitted(mp4Files[idx].name)) =>
            /\ pc' # "stream"
            /\ rs'.state = "idle"
            /\ transcripts' = transcripts
            /\ processedVttNames' = processedVttNames
            /\ hist'.fetched = hist.fetched
            /\ hist'.refetched = hist.refetched
            /\ hist'.absent = hist.absent
            /\ \E e \in 1..Len(transcripts') :
                 /\ e <= Len(vttFiles)
                 /\ transcripts'[e].name = PossibleVttName(mp4Files[idx].name)
                 /\ transcripts'[e].videoUrl = Null
                 /\ transcripts'[e].videoFileName = Null]_vars

\* The download of Weekly Sync.vtt threw in the first pass and the recordings
\* pass attached the file to its recording.
C22_Witness ==
    /\ pc \in {"text", "persist", "respond"}
    /\ allFiles = <<RecA, VttA>>
    /\ VttA.name \in hist.fetchFailed
    /\ VttA.webUrl \in hist.refetched
    /\ Len(transcripts) = 1
    /\ transcripts[1].url = VttA.webUrl
    /\ transcripts[1].videoFileName = RecA.name

\* The items of the listing that are .vtt files passing one of the four match
\* rules for the recording of the run.
RescanCandidates(listing) ==
    {f \in Range(listing) :
        /\ f.kind = "file"
        /\ EndsWith(f.name, ".vtt")
        /\ LET b == ResolverBaseName(rs.fileName) IN
           \/ f.name = b \o ".vtt"
           \/ f.name = b \o "-transcript.vtt"
           \/ StartsWith(f.name, b)
           \/ Includes(f.name, FirstToken(b))}

\* C23: the parent-folder rescan returns the first item, in listing order,
\* that is a .vtt file passing any one of the four match rules; a stricter
\* rule gives no priority, so an item matching by first token only is returned
\* when it is listed before the item named exactly baseName + ".vtt".
C23_RescanFirstMatch ==
    (rs.state = "returned" /\ LastLookup = "parent" /\ rs.result # <<>>) =>
        /\ rs.result[1].url = rs.hits[1].webUrl
        /\ rs.result[1].name = rs.hits[1].name
        /\ FirstPassing(rs.hits[1], rs.listing, RescanCandidates(rs.listing))

\* Weekly Sync.vtt, which has only the first token of Weekly Sync-b, was
\* returned although Weekly Sync-b.vtt is listed after it.
C23_Witness ==
    /\ rs.state = "returned"
    /\ LastLookup = "parent"
    /\ rs.fileName = RecB.name
    /\ rs.listing = <<RecB, VttA, LateVtt>>
    /\ rs.result # <<>>
    /\ rs.result[1].url = VttA.webUrl
    /\ VttA.name # ResolverBaseName(rs.fileName) \o ".vtt"
    /\ ~StartsWith(VttA.name, ResolverBaseName(rs.fileName))
    /\ LateVtt.name = ResolverBaseName(rs.fileName) \o ".vtt"

\* C24: for a base name b and a file name f ending in .vtt, the four-rule
\* match is true exactly when f contains the first hyphen-token of b: the
\* three stricter rules never change the outcome, and with an empty token (b
\* empty or starting with a hyphen) every .vtt name matches.
C24_MatchIsTokenContainment ==
    (out.match # <<>> /\ EndsWith(arg.file, ".vtt")) =>
        /\ out.match[1] <=> Includes(arg.file, FirstToken(arg.x))
        /\ FirstToken(arg.x) = "" => out.match[1]
        /\ (arg.x = "" \/ StartsWith(arg.x, "-")) => FirstToken(arg.x) = ""

\* For the base name -late, whose first token is empty, unrelated.vtt matched.
C24_Witness ==
    /\ arg.x = "-late"
    /\ FirstToken(arg.x) = ""
    /\ arg.file = "unrelated.vtt"
    /\ out.match = <<TRUE>>

\* The name arg.name passes the filter of the recordings.
AcceptedAsRecording ==
    EndsWith(arg.name, ".mp4") /\ Includes(arg.name, "Meeting Recording")

\* C25: for every name the partition accepts as a recording, the base name
\* the scan computes for the same-folder lookup equals the base name the
\* resolver computes for its strategies.
C25_BaseNamesAgree ==
    (AcceptedAsRecording /\ out.scan # <<>> /\ out.resolver # <<>>) =>
        out.scan[1] = out.resolver[1]

\* The pass that emitted the transcript at position k of the list: 1 the VTT
\* pass, 2 the recordings pass, 3 the text pass.
EmittedBy(k) ==
    IF transcripts[k].videoFileName # Null THEN 2
    ELSE IF EndsWith(transcripts[k].name, ".vtt") THEN 1
    ELSE 3

\* The last of the given positions of the list (a non-empty set).
LastOf(positions) == CHOOSE k \in positions : \A j \in positions : j <= k

\* The positions of the transcripts with the url of position k among the given ones.
SharingUrl(k, positions) == {j \in positions : transcripts[j].url = transcripts[k].url}

\* C26: the transcripts of a scan are persisted one at a time in the order of
\* the list, which holds the standalone VTTs, then the recordings' results,
\* then the .txt/.docx files; of the transcripts sharing a sourceUrl, the
\* stored row has the fields of the last one whose upsert wrote its row, a
\* failed upsert leaving the table as it was.
C26_LastWrittenWins ==
    /\ [](/\ \A i, j \in 1..Len(transcripts) : i < j => EmittedBy(i) <= EmittedBy(j)
          /\ \A k \in hist.written :
               /\ \E r \in stored : r.sharepoint_url = transcripts[k].url
               /\ FieldsOf(stored, transcripts[k].url)
                     = Row(transcripts[LastOf(SharingUrl(k, hist.written))])
          /\ pc = "persist" => hist.written \subseteq 1..(idx - 1))
    /\ [][pc = "persist" =>
            /\ transcripts' = transcripts
            /\ (pc' = "persist" /\ idx' = idx + 1) \/ (pc' = "respond" /\ idx = Len(transcripts))
            /\ \/ hist'.written = hist.written \cup {idx}
               \/ /\ hist'.written = hist.written
                  /\ stored' = stored
                  /\ Len(errors') = Len(errors) + 1
                  /\ errors'[Len(errors')].file = transcripts[idx].name]_vars

\* C26 as claimed: of the transcripts sharing a sourceUrl, the stored row has
\* the fields of the later one.
C26_LaterAlwaysStored ==
    (pc = "done" /\ response.status = 200) =>
        \A i, j \in 1..Len(transcripts) :
            (/\ i < j
             /\ transcripts[i].url = transcripts[j].url
             /\ \E r \in stored : r.sharepoint_url = transcripts[j].url)
            => FieldsOf(stored, transcripts[j].url)
                  = Row(transcripts[LastOf(SharingUrl(j, 1..Len(transcripts)))])

\* Both recordings resolved to the same file; the stored row carries the
\* second recording, whose transcript was persisted last.
C26_Witness ==
    /\ pc = "done"
    /\ response.status = 200
    /\ Len(transcripts) = 2
    /\ transcripts[1].url = transcripts[2].url
    /\ transcripts[1].videoFileName = RecA.name
    /\ transcripts[2].videoFileName = RecB.name
    /\ hist.written = {1, 2}
    /\ Cardinality(stored) = 1
    /\ \A r \in stored : r.video_file_name = RecB.name

\* The list holds an entry made of the file of that url with that content.
HasEntry(url, content) ==
    \E e \in 1..Len(transcripts) :
        transcripts[e].url = url /\ transcripts[e].content = content

\* The files of the listing the first and the third pass download.
PassFiles(pass) ==
    {allFiles[k] : k \in {j \in 1..Len(allFiles) :
        /\ allFiles[j].kind = "file"
        /\ IF pass = "vtt" THEN EndsWith(allFiles[j].name, ".vtt")
           ELSE EndsWith(allFiles[j].name, ".txt") \/ EndsWith(allFiles[j].name, ".docx")}}

\* C27: a content download that completes with a non-success status is not a
\* failure: the file yields a transcript whose content is the body of that
\* response, a first-pass VTT is added to the consumed set all the same, and
\* the resolver returns the file it located; only a download that threw
\* leaves a file out.
C27_NonSuccessBodyIsContent ==
    /\ \A url \in hist.unsuccessful : HasEntry(url, "error page")
    /\ \A e \in 1..Len(transcripts) :
         transcripts[e].content = "error page" => transcripts[e].url \in hist.unsuccessful
    /\ PastVttPass =>
         \A f \in PassFiles("vtt") :
            f.name \notin hist.fetchFailed =>
                /\ f.name \in processedVttNames
                /\ \E e \in 1..Len(transcripts) : transcripts[e].url = f.webUrl
    /\ ScanReturned =>
         \A f \in PassFiles("text") :
            f.name \notin hist.fetchFailed =>
                \E e \in 1..Len(transcripts) : transcripts[e].url = f.webUrl
    /\ (rs.state = "returned" /\ rs.hits # <<>>) =>
         /\ rs.result # <<>>
         /\ rs.result[1].url = rs.hits[1].webUrl

\* The download of Weekly Sync.vtt answered with a non-success status in the
\* first pass: the error page is its transcript, its name is consumed and the
\* recording of its name is about to be skipped.
C27_Witness ==
    /\ pc = "mp4"
    /\ allFiles = <<RecA, VttA>>
    /\ hist.unsuccessful = {VttA.webUrl}
    /\ hist.fetchFailed = {}
    /\ Len(transcripts) = 1
    /\ transcripts[1].name = VttA.name
    /\ transcripts[1].content = "error page"
    /\ VttA.name \in processedVttNames

\* The request was answered with the 200 response of action fetch.
Answered == pc = "done" /\ response.status = 200

\* C28: in every successful fetch response count + number of errors entries
\* <= total; a persist step adds the transcript to at most one of the stored
\* list and the errors list, a failed one adds one errors entry with the file
\* name of the transcript, and the loop goes on to the next transcript: when
\* the response is sent every transcript was written or reported.
C28_CountPlusErrorsWithinTotal ==
    /\ [](Answered =>
            /\ response.count + Len(response.errors) <= response.total
            /\ response.count = Len(response.transcripts)
            /\ response.count <= Cardinality(hist.written)
            /\ Cardinality(hist.written) + Len(response.errors) = Len(transcripts)
            /\ \A k \in 1..Len(transcripts) :
                 k \notin hist.written =>
                    \E e \in 1..Len(response.errors) :
                        response.errors[e].file = transcripts[k].name)
    /\ [][pc = "persist" =>
            \/ /\ errors' = errors
               /\ Len(storedTranscripts') = Len(storedTranscripts) + 1
               /\ SubSeq(storedTranscripts', 1, Len(storedTranscripts)) = storedTranscripts
               /\ storedTranscripts'[Len(storedTranscripts')].sharepoint_url
                     = transcripts[idx].url
            \/ /\ storedTranscripts' = storedTranscripts
               /\ Len(errors') = Len(errors) + 1
               /\ SubSeq(errors', 1, Len(errors)) = errors
               /\ errors'[Len(errors')].file = transcripts[idx].name
               /\ stored' = stored
               /\ IF idx < Len(transcripts) THEN pc' = "persist" /\ idx' = idx + 1
                  ELSE pc' = "respond"
            \/ /\ storedTranscripts' = storedTranscripts
               /\ errors' = errors]_vars

\* The upsert of the first transcript failed and is reported under its file
\* name; the second transcript was stored after it.
C28_Witness ==
    /\ Answered
    /\ response.total = 2
    /\ response.count = 1
    /\ Len(response.errors) = 1
    /\ response.errors[1].file = transcripts[1].name
    /\ hist.written = {2}
    /\ response.transcripts[1].sharepoint_url = transcripts[2].url

\* C29: during a scan the consumed set only grows; every name in it is the
\* name of a .vtt file of the listing whose download completed and whose
\* transcript is in the list already; a run of the resolver leaves the set as
\* it is, whatever file it locates.
C29_ConsumedSetIsFirstPassVtts ==
    /\ [](\A name \in processedVttNames :
            \E k \in 1..Len(allFiles) :
                /\ allFiles[k].kind = "file"
                /\ allFiles[k].name = name
                /\ EndsWith(name, ".vtt")
                /\ allFiles[k].webUrl \in hist.completed
                /\ \E e \in 1..Len(transcripts) :
                     /\ transcripts[e].name = name
                     /\ transcripts[e].url = allFiles[k].webUrl)
    /\ [][/\ processedVttNames \subseteq processedVttNames'
          /\ pc \in ResolverPcs => processedVttNames' = processedVttNames
          /\ processedVttNames' # processedVttNames =>
                /\ pc \in {"vtt", "mp4"}
                /\ Len(transcripts') = Len(transcripts) + 1
                /\ processedVttNames' =
                      processedVttNames \cup {transcripts'[Len(transcripts')].name}]_vars

\* The parent rescan located Weekly Sync.vtt of the listing, whose first-pass
\* download had thrown, and returned it: the consumed set is still empty.
C29_Witness ==
    /\ rs.state = "returned"
    /\ allFiles = <<RecB, VttA>>
    /\ VttA.name \in hist.fetchFailed
    /\ rs.result # <<>>
    /\ rs.result[1].url = VttA.webUrl
    /\ Len(transcripts) = 1
    /\ processedVttNames = {}

\* The calls of the summarize request in the order the handler issues them.
SummarizeCalls == <<"transcripts", "azure_openai_config", "ai", "summaries">>

\* The call of that name was issued by the request.
WasCalled(call) == \E k \in 1..Len(sm.calls) : sm.calls[k][1] = call

\* The transcript of the given id is in the table.
TranscriptExists == \E r \in stored : r.id = sm.transcriptId

\* The configuration row exists and its api key is not empty.
KeyConfigured ==
    /\ azure_openai_config # {}
    /\ \A c \in azure_openai_config : c.api_key # "" /\ c.api_key # Null

\* C30: a summarize request inserts a summary row only after the transcript
\* of the id was found, the Azure OpenAI configuration row was found, its api
\* key was seen non-empty and the AI call came back with a success status,
\* checked in this order; in every other case no row is inserted and the
\* response is an error with status 400.
C30_SummaryOnlyAfterAllChecks ==
    /\ Len(sm.calls) <= Len(SummarizeCalls)
    /\ \A k \in 1..Len(sm.calls) :
         /\ sm.calls[k][1] = SummarizeCalls[k]
         /\ k < Len(sm.calls) => sm.calls[k][2] = "ok"
    /\ WasCalled("azure_openai_config") => TranscriptExists
    /\ WasCalled("ai") => TranscriptExists /\ KeyConfigured
    /\ summaries # {} =>
         /\ TranscriptExists
         /\ KeyConfigured
         /\ sm.calls = <<<<"transcripts", "ok">>, <<"azure_openai_config", "ok">>,
                         <<"ai", "ok">>, <<"summaries", "ok">>>>
         /\ \A row \in summaries : row.transcript_id = sm.transcriptId
         /\ Cardinality(summaries) = 1
    /\ pc = "done" =>
         IF summaries # {}
         THEN response.status = 200
         ELSE response.status = 400 /\ response.body = "error" /\ response.error # ""
    /\ (pc = "done" /\ ~(TranscriptExists /\ KeyConfigured /\ <<"ai", "ok">> \in Range(sm.calls)))
          => summaries = {} /\ response.status = 400

\* The summary of transcript 2 was inserted after the four checks.
C30_Witness ==
    /\ pc = "done"
    /\ response.status = 200
    /\ sm.transcriptId = 2
    /\ Len(sm.calls) = 4
    /\ \E row \in summaries :
         /\ row.transcript_id = 2
         /\ row.summary = "summary of Other.vtt"
         /\ row.ai_model = "azure-gpt-4o-mini"

=============================================================================
